---- MODULE Spec2Model ----
(***************************************************************************)
(* Model of the DAG class of src/src/base_dag/dag.py (and of the parts of  *)
(* src/src/simple-dag/dag.py that are the same code).                      *)
(*                                                                         *)
(* dag_dict is a Python dict: insertion-ordered keys, each mapped to a     *)
(* list of successors.  It is modelled as a sequence of entries            *)
(* [k |-> key, v |-> list], in insertion order.  Node keys are Python      *)
(* ints 0..MaxNode, so list.pop(node) is pop-by-index as in Python.        *)
(*                                                                         *)
(* Every method is an operator that returns the dict after the call and    *)
(* the outcome: "ok" or the name of the exception that left the method.    *)
(***************************************************************************)
EXTENDS Integers, Sequences, FiniteSets, TLC

VARIABLES dag_dict, orig, pre, call, result, ret, prev, calls, expanded

vars == <<dag_dict, orig, pre, call, result, ret, prev, calls, expanded>>

\* Node keys are 0..MaxNode.
MaxNode == 2

Nodes == 0..MaxNode

(***************************************************************************)
(* Python list and dict primitives                                         *)
(***************************************************************************)

\* x in list
InList(x, l) == \E i \in DOMAIN l : l[i] = x

\* the list without its element at the 1-based position p
DropAt(l, p) == [i \in 1..(Len(l) - 1) |-> IF i < p THEN l[i] ELSE l[i + 1]]

\* list.remove(x): drops the first occurrence; ValueError when there is none
ListRemove(l, x) ==
    IF InList(x, l)
    THEN [l |-> DropAt(l, CHOOSE i \in DOMAIN l :
                              l[i] = x /\ \A j \in 1..(i - 1) : l[j] # x),
          result |-> "ok"]
    ELSE [l |-> l, result |-> "ValueError"]

\* list.pop(i) with an int i >= 0: drops the element at 0-based index i;
\* IndexError when i is out of range
ListPop(l, i) ==
    IF i < Len(l)
    THEN [l |-> DropAt(l, i + 1), result |-> "ok"]
    ELSE [l |-> l, result |-> "IndexError"]

\* dag_dict.keys()
Keys(d) == {d[i].k : i \in DOMAIN d}

\* position of key n in the dict
Pos(d, n) == CHOOSE i \in DOMAIN d : d[i].k = n

\* dag_dict[n] for a key n
Get(d, n) == d[Pos(d, n)].v

\* dag_dict[n] = l for an existing key n (position kept)
Put(d, n, l) == [d EXCEPT ![Pos(d, n)].v = l]

\* del dag_dict[n]
Del(d, n) == DropAt(d, Pos(d, n))

(***************************************************************************)
(* Node and edge views                                                     *)
(***************************************************************************)

\* DAG.nodes
nodes(d) == [i \in DOMAIN d |-> d[i].k]

RECURSIVE edges_from(_, _)
edges_from(d, i) ==
    IF i > Len(d) THEN <<>>
    ELSE [j \in DOMAIN d[i].v |-> <<d[i].k, d[i].v[j]>>] \o edges_from(d, i + 1)

\* DAG.edges: (source, target) pairs in dict order, then list order
edges(d) == edges_from(d, 1)

\* DAG.predecessors
predecessors(d, n) == SelectSeq(nodes(d), LAMBDA m : InList(n, Get(d, m)))

\* DAG.indegree
indegree(d, n) == Len(predecessors(d, n))

\* successors: self.dag_dict[node], a KeyError for a node that is no key
successors(d, n) ==
    IF n \notin Keys(d) THEN [ret |-> <<>>, result |-> "KeyError"]
    ELSE [ret |-> Get(d, n), result |-> "ok"]

\* outdegree: len(self.successors(node))
outdegree(d, n) ==
    LET r == successors(d, n) IN
    [ret |-> IF r.result = "ok" THEN <<Len(r.ret)>> ELSE <<>>,
     result |-> r.result]

(***************************************************************************)
(* DAG.add_node, DAG.remove_node                                           *)
(***************************************************************************)

\* add_node as it would be without the test `if node_to_add in keys`: the
\* list of an existing node is replaced by the empty list
add_node_overwrite(d, n) ==
    IF n \in Keys(d) THEN [d EXCEPT ![CHOOSE i \in DOMAIN d : d[i].k = n].v = <<>>]
    ELSE Append(d, [k |-> n, v |-> <<>>])

add_node(d, n) ==
    IF n \in Keys(d) THEN d ELSE Append(d, [k |-> n, v |-> <<>>])

\* the loop of remove_node over the remaining keys, from position i
RECURSIVE remove_node_loop(_, _, _)
remove_node_loop(d, n, i) ==
    IF i > Len(d) THEN [d |-> d, result |-> "ok"]
    ELSE IF InList(n, d[i].v)
         THEN LET p == ListPop(d[i].v, n) IN
              IF p.result = "ok"
              THEN remove_node_loop([d EXCEPT ![i].v = p.l], n, i + 1)
              ELSE [d |-> d, result |-> p.result]
         ELSE remove_node_loop(d, n, i + 1)

remove_node(d, n) ==
    IF n \notin Keys(d) THEN [d |-> d, result |-> "ok"]
    ELSE remove_node_loop(Del(d, n), n, 1)

(***************************************************************************)
(* DAG.has_path                                                            *)
(***************************************************************************)

RECURSIVE has_path_dfs(_, _, _, _, _), has_path_loop(_, _, _, _, _, _)
\* dfs(node) of has_path; r is "True", "False" or "KeyError" (successors of
\* a node that is no key); exp lists the nodes in the order dfs went past
\* its first test for them
has_path_dfs(d, node, end, visited, exp) ==
    IF node = end THEN [r |-> "True", visited |-> visited, exp |-> exp]
    ELSE IF node \notin Keys(d)
         THEN [r |-> "KeyError", visited |-> visited \cup {node},
               exp |-> Append(exp, node)]
         ELSE has_path_loop(d, Get(d, node), 1, end, visited \cup {node},
                            Append(exp, node))

\* has_path_loop as it would be with `return dfs(successor)` in the loop:
\* the search ends with the first successor not visited
has_path_loop_first_successor(d, succs, i, end, visited, exp) ==
    IF i > Len(succs) THEN [r |-> "False", visited |-> visited, exp |-> exp]
    ELSE IF succs[i] \in visited
         THEN has_path_loop(d, succs, i + 1, end, visited, exp)
         ELSE has_path_dfs(d, succs[i], end, visited, exp)

has_path_loop(d, succs, i, end, visited, exp) ==
    IF i > Len(succs) THEN [r |-> "False", visited |-> visited, exp |-> exp]
    ELSE IF succs[i] \in visited
         THEN has_path_loop(d, succs, i + 1, end, visited, exp)
         ELSE LET sub == has_path_dfs(d, succs[i], end, visited, exp) IN
              IF sub.r = "False"
              THEN has_path_loop(d, succs, i + 1, end, sub.visited, sub.exp)
              ELSE sub

\* the whole search: its outcome r and the nodes it expanded
has_path_search(d, start, end) == has_path_dfs(d, start, end, {}, <<>>)

has_path(d, start, end) == has_path_search(d, start, end).r

(***************************************************************************)
(* DAG.descendants, DAG.ancestors                                          *)
(*                                                                         *)
(* acc is the set `descendants` (`ancestors`) of the method; exp lists     *)
(* the nodes in the order the recursive helper was entered for them.       *)
(***************************************************************************)

RECURSIVE recurse_descendants(_, _, _, _), descendants_loop(_, _, _, _, _)
recurse_descendants(d, current_node, acc, exp) ==
    IF current_node \notin Keys(d)
    THEN [result |-> "KeyError", acc |-> acc, exp |-> Append(exp, current_node)]
    ELSE descendants_loop(d, Get(d, current_node), 1, acc,
                          Append(exp, current_node))

descendants_loop(d, succs, i, acc, exp) ==
    IF i > Len(succs) THEN [result |-> "ok", acc |-> acc, exp |-> exp]
    ELSE IF succs[i] \in acc THEN descendants_loop(d, succs, i + 1, acc, exp)
    ELSE LET sub == recurse_descendants(d, succs[i], acc \cup {succs[i]}, exp)
         IN  IF sub.result # "ok" THEN sub
             ELSE descendants_loop(d, succs, i + 1, sub.acc, sub.exp)

RECURSIVE recurse_ancestors(_, _, _, _), ancestors_loop(_, _, _, _, _)
recurse_ancestors(d, current_node, acc, exp) ==
    ancestors_loop(d, predecessors(d, current_node), 1, acc,
                   Append(exp, current_node))

ancestors_loop(d, preds, i, acc, exp) ==
    IF i > Len(preds) THEN [result |-> "ok", acc |-> acc, exp |-> exp]
    ELSE IF preds[i] \in acc THEN ancestors_loop(d, preds, i + 1, acc, exp)
    ELSE LET sub == recurse_ancestors(d, preds[i], acc \cup {preds[i]}, exp)
         IN  ancestors_loop(d, preds, i + 1, sub.acc, sub.exp)

\* list(set) of small ints: the elements in ascending order
RECURSIVE list_of_set(_)
list_of_set(S) ==
    IF S = {} THEN <<>>
    ELSE LET m == CHOOSE x \in S : \A y \in S : x <= y IN
         <<m>> \o list_of_set(S \ {m})

descendants(d, node) ==
    LET r == recurse_descendants(d, node, {}, <<>>) IN
    [ret |-> IF r.result = "ok" THEN list_of_set(r.acc) ELSE <<>>,
     result |-> r.result, exp |-> r.exp]

ancestors(d, node) ==
    LET r == recurse_ancestors(d, node, {}, <<>>) IN
    [ret |-> list_of_set(r.acc), result |-> r.result, exp |-> r.exp]

(***************************************************************************)
(* DAG.add_edge, DAG.remove_edge                                           *)
(***************************************************************************)

\* lines 46-50 of add_edge: append, then the cycle guard
add_edge_commit(d, source_node, target_node) ==
    LET d3 == Put(d, source_node, Append(Get(d, source_node), target_node))
        hp == has_path(d3, target_node, source_node)
    IN  IF hp = "KeyError" THEN [d |-> d3, result |-> "KeyError"]
        ELSE IF hp # "True"
             THEN [d |-> Put(d3, source_node,
                             ListRemove(Get(d3, source_node), target_node).l),
                   result |-> "ValueError"]
             ELSE [d |-> d3, result |-> "ok"]

\* add_edge as it would be without the test
\* `if target_node in self.dag_dict[source_node]: return`
add_edge_no_duplicate_test(d, e) ==
    IF Len(e) # 2 THEN [d |-> d, result |-> "ValueError"]
    ELSE LET source_node == e[1]
             target_node == e[2]
             d1 == IF source_node \notin Keys(d) THEN add_node(d, source_node)
                   ELSE d
             d2 == IF target_node \notin Keys(d1) THEN add_node(d1, target_node)
                   ELSE d1
         IN  add_edge_commit(d2, source_node, target_node)

add_edge(d, e) ==
    IF Len(e) # 2 THEN [d |-> d, result |-> "ValueError"]
    ELSE LET source_node == e[1]
             target_node == e[2]
             d1 == IF source_node \notin Keys(d) THEN add_node(d, source_node)
                   ELSE d
             d2 == IF target_node \notin Keys(d1) THEN add_node(d1, target_node)
                   ELSE d1
         IN  IF InList(target_node, Get(d2, source_node))
             THEN [d |-> d2, result |-> "ok"]
             ELSE add_edge_commit(d2, source_node, target_node)

remove_edge(d, e) ==
    IF Len(e) # 2 THEN [d |-> d, result |-> "ValueError"]
    ELSE IF e[1] \notin Keys(d) THEN [d |-> d, result |-> "KeyError"]
    ELSE LET r == ListRemove(Get(d, e[1]), e[2]) IN
         [d |-> Put(d, e[1], r.l), result |-> r.result]

(***************************************************************************)
(* DAG.is_acyclic                                                          *)
(***************************************************************************)

RECURSIVE is_acyclic_dfs(_, _, _, _, _), is_acyclic_loop(_, _, _, _, _, _, _)
\* is_acyclic_dfs as it would be without the test `if node in visited`
is_acyclic_dfs_no_visited_test(d, node, visited, recursion_stack, exp) ==
    IF node \in recursion_stack
    THEN [r |-> "False", visited |-> visited, stack |-> recursion_stack,
          exp |-> exp]
    ELSE IF node \notin Keys(d)
    THEN [r |-> "KeyError", visited |-> visited \cup {node},
          stack |-> recursion_stack \cup {node}, exp |-> Append(exp, node)]
    ELSE is_acyclic_loop(d, node, Get(d, node), 1, visited \cup {node},
                         recursion_stack \cup {node}, Append(exp, node))

\* dfs(node) of is_acyclic; r is "True", "False" or "KeyError"; exp lists
\* the nodes in the order dfs went past its first two tests for them
is_acyclic_dfs(d, node, visited, recursion_stack, exp) ==
    IF node \in recursion_stack
    THEN [r |-> "False", visited |-> visited, stack |-> recursion_stack,
          exp |-> exp]
    ELSE IF node \in visited
    THEN [r |-> "True", visited |-> visited, stack |-> recursion_stack,
          exp |-> exp]
    ELSE IF node \notin Keys(d)
    THEN [r |-> "KeyError", visited |-> visited \cup {node},
          stack |-> recursion_stack \cup {node}, exp |-> Append(exp, node)]
    ELSE is_acyclic_loop(d, node, Get(d, node), 1, visited \cup {node},
                         recursion_stack \cup {node}, Append(exp, node))

\* is_acyclic_loop as it would be without `recursion_stack.remove(node)`
is_acyclic_loop_stack_kept(d, node, succs, i, visited, recursion_stack, exp) ==
    IF i > Len(succs)
    THEN [r |-> "True", visited |-> visited, stack |-> recursion_stack,
          exp |-> exp]
    ELSE LET sub == is_acyclic_dfs(d, succs[i], visited, recursion_stack, exp)
         IN  IF sub.r = "True"
             THEN is_acyclic_loop(d, node, succs, i + 1, sub.visited,
                                  sub.stack, sub.exp)
             ELSE sub

is_acyclic_loop(d, node, succs, i, visited, recursion_stack, exp) ==
    IF i > Len(succs)
    THEN [r |-> "True", visited |-> visited,
          stack |-> recursion_stack \ {node}, exp |-> exp]
    ELSE LET sub == is_acyclic_dfs(d, succs[i], visited, recursion_stack, exp)
         IN  IF sub.r = "True"
             THEN is_acyclic_loop(d, node, succs, i + 1, sub.visited,
                                  sub.stack, sub.exp)
             ELSE sub

\* the loop of is_acyclic over self.nodes(), from position i
RECURSIVE is_acyclic_from(_, _, _, _, _)
is_acyclic_from(d, i, visited, recursion_stack, exp) ==
    IF i > Len(d) THEN [r |-> "True", exp |-> exp]
    ELSE IF d[i].k \in visited
    THEN is_acyclic_from(d, i + 1, visited, recursion_stack, exp)
    ELSE LET sub == is_acyclic_dfs(d, d[i].k, visited, recursion_stack, exp)
         IN  IF sub.r = "True"
             THEN is_acyclic_from(d, i + 1, sub.visited, sub.stack, sub.exp)
             ELSE [r |-> sub.r, exp |-> sub.exp]

\* the whole check: its outcome r and the nodes it expanded
is_acyclic_search(d) == is_acyclic_from(d, 1, {}, {}, <<>>)

is_acyclic(d) == is_acyclic_search(d).r

(***************************************************************************)
(* DAG.topological_sort                                                    *)
(***************************************************************************)

\* indegree_map = {node: self.indegree(node) for node in self.nodes()}
indegree_map(d) == [n \in Keys(d) |-> indegree(d, n)]

\* zero_indegree_nodes as it would be without the `if indegree == 0` filter
zero_indegree_nodes_unfiltered(d) == nodes(d)

\* zero_indegree_nodes, in dict order
zero_indegree_nodes(d) ==
    SelectSeq(nodes(d), LAMBDA n : indegree_map(d)[n] = 0)

\* decrement_successors as it would be without the test
\* `if indegree_map[successor] == 0`: every successor is appended
RECURSIVE decrement_successors_unconditional(_, _, _, _)
decrement_successors_unconditional(succs, i, map, zero) ==
    IF i > Len(succs) THEN [map |-> map, zero |-> zero, result |-> "ok"]
    ELSE IF succs[i] \notin DOMAIN map
    THEN [map |-> map, zero |-> zero, result |-> "KeyError"]
    ELSE decrement_successors_unconditional(succs, i + 1,
             [map EXCEPT ![succs[i]] = @ - 1], Append(zero, succs[i]))

\* the loop over the successors of the node just taken: decrements the
\* indegrees and appends the nodes that reach zero to the list `zero`
RECURSIVE decrement_successors(_, _, _, _)
decrement_successors(succs, i, map, zero) ==
    IF i > Len(succs) THEN [map |-> map, zero |-> zero, result |-> "ok"]
    ELSE IF succs[i] \notin DOMAIN map
    THEN [map |-> map, zero |-> zero, result |-> "KeyError"]
    ELSE LET m2 == [map EXCEPT ![succs[i]] = @ - 1] IN
         decrement_successors(succs, i + 1, m2,
             IF m2[succs[i]] = 0 THEN Append(zero, succs[i]) ELSE zero)

\* the while loop of topological_sort; exp lists the nodes popped from
\* zero_indegree_nodes
RECURSIVE topological_sort_loop(_, _, _, _)
topological_sort_loop(d, zero, map, sorted_nodes) ==
    IF zero = <<>>
    THEN IF Len(sorted_nodes) # Len(nodes(d))
         THEN [ret |-> <<>>, result |-> "ValueError", exp |-> sorted_nodes]
         ELSE [ret |-> sorted_nodes, result |-> "ok", exp |-> sorted_nodes]
    ELSE LET current_node == zero[Len(zero)]
             step == decrement_successors(Get(d, current_node), 1, map,
                                          SubSeq(zero, 1, Len(zero) - 1))
         IN  IF step.result # "ok"
             THEN [ret |-> <<>>, result |-> step.result,
                   exp |-> Append(sorted_nodes, current_node)]
             ELSE topological_sort_loop(d, step.zero, step.map,
                                        Append(sorted_nodes, current_node))

topological_sort(d) ==
    topological_sort_loop(d, zero_indegree_nodes(d), indegree_map(d), <<>>)

(***************************************************************************)
(* DAG.topological_generations                                             *)
(***************************************************************************)

\* the for loop over current_generation, from position i; `next` is
\* next_generation, n the number of nodes of the generation the loop took
RECURSIVE generation_loop(_, _, _, _, _)
generation_loop(d, current_generation, i, map, next) ==
    IF i > Len(current_generation)
    THEN [map |-> map, zero |-> next, result |-> "ok",
          n |-> Len(current_generation)]
    ELSE LET step == decrement_successors(Get(d, current_generation[i]), 1,
                                          map, next)
         IN  IF step.result # "ok"
             THEN [map |-> step.map, zero |-> step.zero,
                   result |-> step.result, n |-> i]
             ELSE generation_loop(d, current_generation, i + 1, step.map,
                                  step.zero)

RECURSIVE SumLen(_)
SumLen(gens) == IF gens = <<>> THEN 0 ELSE Len(Head(gens)) + SumLen(Tail(gens))

\* the generations one after the other, as one list
RECURSIVE Flatten(_)
Flatten(gens) ==
    IF gens = <<>> THEN <<>> ELSE Head(gens) \o Flatten(Tail(gens))

\* topological_generations_loop as it would be with
\* `current_generation = zero_indegree_nodes[:1]`: one node per generation
RECURSIVE topological_generations_loop_one_node(_, _, _, _)
topological_generations_loop_one_node(d, zero, map, generations) ==
    IF zero = <<>>
    THEN IF SumLen(generations) # Len(nodes(d))
         THEN [ret |-> <<>>, result |-> "ValueError",
               exp |-> Flatten(generations)]
         ELSE [ret |-> generations, result |-> "ok",
               exp |-> Flatten(generations)]
    ELSE LET step == generation_loop(d, <<Head(zero)>>, 1, map, Tail(zero)) IN
         IF step.result # "ok"
         THEN [ret |-> <<>>, result |-> step.result,
               exp |-> Flatten(generations) \o SubSeq(zero, 1, step.n)]
         ELSE topological_generations_loop_one_node(d, step.zero, step.map,
                  Append(generations, <<Head(zero)>>))

\* topological_generations_loop as it would be if the loop tested
\* zero_indegree_nodes after `generations.append(current_generation)`
RECURSIVE topological_generations_loop_test_last(_, _, _, _)
topological_generations_loop_test_last(d, zero, map, generations) ==
    IF zero = <<>>
    THEN IF SumLen(generations) # Len(nodes(d))
         THEN [ret |-> <<>>, result |-> "ValueError",
               exp |-> Flatten(generations)]
         ELSE [ret |-> Append(generations, zero), result |-> "ok",
               exp |-> Flatten(generations)]
    ELSE LET step == generation_loop(d, zero, 1, map, <<>>) IN
         IF step.result # "ok"
         THEN [ret |-> <<>>, result |-> step.result,
               exp |-> Flatten(generations) \o SubSeq(zero, 1, step.n)]
         ELSE topological_generations_loop_test_last(d, step.zero, step.map,
                  Append(generations, zero))

\* the while loop of topological_generations; exp lists the nodes the for
\* loop took
RECURSIVE topological_generations_loop(_, _, _, _)
topological_generations_loop(d, zero, map, generations) ==
    IF zero = <<>>
    THEN IF SumLen(generations) # Len(nodes(d))
         THEN [ret |-> <<>>, result |-> "ValueError",
               exp |-> Flatten(generations)]
         ELSE [ret |-> generations, result |-> "ok",
               exp |-> Flatten(generations)]
    ELSE LET step == generation_loop(d, zero, 1, map, <<>>) IN
         IF step.result # "ok"
         THEN [ret |-> <<>>, result |-> step.result,
               exp |-> Flatten(generations) \o SubSeq(zero, 1, step.n)]
         ELSE topological_generations_loop(d, step.zero, step.map,
                                           Append(generations, zero))

topological_generations(d) ==
    topological_generations_loop(d, zero_indegree_nodes(d), indegree_map(d),
                                 <<>>)

(***************************************************************************)
(* DAG.sorted_topological_generations with the default key                 *)
(***************************************************************************)

\* sorted(generation, key=str): the nodes are distinct one-digit numbers,
\* whose order as strings is their order as numbers
RECURSIVE sorted_by_str(_)
sorted_by_str(generation) ==
    IF generation = <<>> THEN <<>>
    ELSE LET m == CHOOSE i \in DOMAIN generation :
                     \A j \in DOMAIN generation : generation[i] <= generation[j]
         IN  <<generation[m]>> \o sorted_by_str(DropAt(generation, m))

sorted_topological_generations(d) ==
    LET r == topological_generations(d) IN
    [ret |-> [k \in DOMAIN r.ret |-> sorted_by_str(r.ret[k])],
     result |-> r.result, exp |-> r.exp]

(***************************************************************************)
(* DAG.subgraph, DAG.reverse                                               *)
(***************************************************************************)

\* subgraph.add_edge(source, target): add_edge is declared with the single
\* parameter edge_to_add, so a call with two positional arguments raises
\* TypeError before the body runs
add_edge_two_args(d, source, target) == [d |-> d, result |-> "TypeError"]

\* the loop of subgraph over self.edges(), from position i
RECURSIVE subgraph_edges(_, _, _, _)
subgraph_edges(sub, all_edges, i, nodes_in_subgraph) ==
    IF i > Len(all_edges) THEN [ret |-> sub, result |-> "ok"]
    ELSE IF \/ ~InList(all_edges[i][1], nodes_in_subgraph)
            \/ ~InList(all_edges[i][2], nodes_in_subgraph)
    THEN subgraph_edges(sub, all_edges, i + 1, nodes_in_subgraph)
    ELSE LET r == add_edge_two_args(sub, all_edges[i][1], all_edges[i][2]) IN
         IF r.result # "ok" THEN [ret |-> <<>>, result |-> r.result]
         ELSE subgraph_edges(r.d, all_edges, i + 1, nodes_in_subgraph)

\* the loop of subgraph that adds the nodes
RECURSIVE subgraph_nodes(_, _, _)
subgraph_nodes(sub, nodes_in_subgraph, i) ==
    IF i > Len(nodes_in_subgraph) THEN sub
    ELSE subgraph_nodes(add_node(sub, nodes_in_subgraph[i]),
                        nodes_in_subgraph, i + 1)

subgraph(d, nodes_in_subgraph) ==
    subgraph_edges(subgraph_nodes(<<>>, nodes_in_subgraph, 1), edges(d), 1,
                   nodes_in_subgraph)

\* the first loop of reverse: remove_edge for every edge
RECURSIVE reverse_remove(_, _, _)
reverse_remove(d, es, i) ==
    IF i > Len(es) THEN [d |-> d, result |-> "ok"]
    ELSE LET r == remove_edge(d, es[i]) IN
         IF r.result # "ok" THEN r ELSE reverse_remove(r.d, es, i + 1)

\* the second loop of reverse: add_edge for every reversed edge
RECURSIVE reverse_add(_, _, _)
reverse_add(d, es, i) ==
    IF i > Len(es) THEN [d |-> d, result |-> "ok"]
    ELSE LET r == add_edge(d, <<es[i][2], es[i][1]>>) IN
         IF r.result # "ok" THEN r ELSE reverse_add(r.d, es, i + 1)

reverse(d) ==
    LET es == edges(d)
        r == reverse_remove(d, es, 1)
    IN  IF r.result # "ok" THEN r ELSE reverse_add(r.d, es, 1)

(***************************************************************************)
(* src/src/simple-dag/dag.py: the methods whose code differs               *)
(***************************************************************************)

\* DAG.rm_edge of simple-dag: dag_dict[source_node].pop(target_node), a pop
\* by index
rm_edge(d, e) ==
    IF Len(e) # 2 THEN [d |-> d, result |-> "ValueError"]
    ELSE IF e[1] \notin Keys(d) THEN [d |-> d, result |-> "KeyError"]
    ELSE LET r == ListPop(Get(d, e[1]), e[2]) IN
         [d |-> Put(d, e[1], r.l), result |-> r.result]

\* DAG.descendants of simple-dag: the helper appends the successor list to
\* its accumulator and, for each successor, calls itself on the same node
\* again, so with any successor the recursion never returns and Python
\* raises RecursionError; without successors the result is [[]]
simple_descendants(d, node) ==
    IF node \notin Keys(d) THEN [ret |-> <<>>, result |-> "KeyError"]
    ELSE IF Get(d, node) # <<>>
    THEN [ret |-> <<>>, result |-> "RecursionError"]
    ELSE [ret |-> <<Get(d, node)>>, result |-> "ok"]

\* DAG.ancestors of simple-dag: the same recursion on the same node for each
\* predecessor; without predecessors the result is the empty predecessor list
simple_ancestors(d, node) ==
    IF predecessors(d, node) # <<>>
    THEN [ret |-> <<>>, result |-> "RecursionError"]
    ELSE [ret |-> predecessors(d, node), result |-> "ok"]

(***************************************************************************)
(* The state machine: one action per public method.  pre is the dict       *)
(* before the last call, call the method and its argument, result the      *)
(* outcome, ret the value returned and prev the value the call before      *)
(* returned; expanded lists, for a traversal, the nodes it expanded, in    *)
(* the order of the expansions.                                            *)
(***************************************************************************)

NoCall == [op |-> "none", arg |-> <<>>]

Traverse(op, arg, d, res, value, exp) ==
    /\ dag_dict' = d
    /\ pre' = dag_dict
    /\ call' = [op |-> op, arg |-> arg]
    /\ result' = res
    /\ ret' = value
    /\ prev' = ret
    /\ orig' = orig
    /\ expanded' = exp

Do(op, arg, d, res, value) == Traverse(op, arg, d, res, value, <<>>)

\* the edge tuples passed to add_edge and remove_edge: all pairs, and for
\* every node a tuple of one and a tuple of three elements
EdgeArgs == (Nodes \X Nodes) \cup {<<n>> : n \in Nodes}
                \cup {<<n, n, n>> : n \in Nodes}

\* the lists without duplicates over a set
Perms(S) == {s \in [1..Cardinality(S) -> S] :
                \A i, j \in DOMAIN s : i # j => s[i] # s[j]}
Lists(S) == UNION {Perms(T) : T \in SUBSET S}

\* the lists passed to subgraph: every set of nodes, in ascending order
RECURSIVE Ascending(_)
Ascending(S) ==
    IF S = {} THEN <<>>
    ELSE LET m == CHOOSE x \in S : \A y \in S : x <= y IN
         <<m>> \o Ascending(S \ {m})

SubgraphArgs == {Ascending(S) : S \in SUBSET Nodes}

AddNode(n) == Do("add_node", <<n>>, add_node(dag_dict, n), "ok", <<>>)

RemoveNode(n) ==
    LET r == remove_node(dag_dict, n) IN
    Do("remove_node", <<n>>, r.d, r.result, <<>>)

AddEdge(e) ==
    LET r == add_edge(dag_dict, e) IN Do("add_edge", e, r.d, r.result, <<>>)

RemoveEdge(e) ==
    LET r == remove_edge(dag_dict, e) IN
    Do("remove_edge", e, r.d, r.result, <<>>)

Reverse ==
    LET r == reverse(dag_dict) IN Do("reverse", <<>>, r.d, r.result, <<>>)

RmEdge(e) ==
    LET r == rm_edge(dag_dict, e) IN Do("rm_edge", e, r.d, r.result, <<>>)

Subgraph(l) ==
    LET r == subgraph(dag_dict, l) IN
    Do("subgraph", l, dag_dict, r.result, r.ret)

\* TopologicalSort as it would be if the method took the edges it follows
\* out of the graph itself
TopologicalSort_consuming ==
    LET r == topological_sort(dag_dict) IN
    Traverse("topological_sort", <<>>,
             [i \in DOMAIN dag_dict |-> [k |-> dag_dict[i].k, v |-> <<>>]],
             r.result, r.ret, r.exp)

TopologicalSort ==
    LET r == topological_sort(dag_dict) IN
    Traverse("topological_sort", <<>>, dag_dict, r.result, r.ret, r.exp)

TopologicalGenerations ==
    LET r == topological_generations(dag_dict) IN
    Traverse("topological_generations", <<>>, dag_dict, r.result, r.ret,
             r.exp)

IsAcyclic ==
    LET s == is_acyclic_search(dag_dict) IN
    Traverse("is_acyclic", <<>>, dag_dict,
             IF s.r = "KeyError" THEN "KeyError" ELSE "ok", <<s.r>>, s.exp)

HasPath(start, end) ==
    LET s == has_path_search(dag_dict, start, end) IN
    Traverse("has_path", <<start, end>>, dag_dict,
             IF s.r = "KeyError" THEN "KeyError" ELSE "ok", <<s.r>>, s.exp)

Descendants(n) ==
    LET r == descendants(dag_dict, n) IN
    Traverse("descendants", <<n>>, dag_dict, r.result, r.ret, r.exp)

Ancestors(n) ==
    LET r == ancestors(dag_dict, n) IN
    Traverse("ancestors", <<n>>, dag_dict, r.result, r.ret, r.exp)

SortedTopologicalGenerations ==
    LET r == sorted_topological_generations(dag_dict) IN
    Traverse("sorted_topological_generations", <<>>, dag_dict, r.result,
             r.ret, r.exp)

NodesOf == Do("nodes", <<>>, dag_dict, "ok", nodes(dag_dict))

Edges == Do("edges", <<>>, dag_dict, "ok", edges(dag_dict))

Successors(n) ==
    LET r == successors(dag_dict, n) IN
    Do("successors", <<n>>, dag_dict, r.result, r.ret)

Predecessors(n) ==
    Do("predecessors", <<n>>, dag_dict, "ok", predecessors(dag_dict, n))

Indegree(n) == Do("indegree", <<n>>, dag_dict, "ok", <<indegree(dag_dict, n)>>)

Outdegree(n) ==
    LET r == outdegree(dag_dict, n) IN
    Do("outdegree", <<n>>, dag_dict, r.result, r.ret)

SimpleDescendants(n) ==
    LET r == simple_descendants(dag_dict, n) IN
    Do("simple_dag.descendants", <<n>>, dag_dict, r.result, r.ret)

SimpleAncestors(n) ==
    LET r == simple_ancestors(dag_dict, n) IN
    Do("simple_dag.ancestors", <<n>>, dag_dict, r.result, r.ret)

\* DAG.__init__: the empty graph; any sequence of calls follows
Init ==
    /\ dag_dict = <<>>
    /\ orig = <<>>
    /\ pre = <<>>
    /\ call = NoCall
    /\ result = "ok"
    /\ ret = <<>>
    /\ prev = <<>>
    /\ calls = 0
    /\ expanded = <<>>

\* the public mutation methods, in any sequence
Next ==
    \/ \E n \in Nodes : AddNode(n) /\ UNCHANGED calls
    \/ \E n \in Nodes : RemoveNode(n) /\ UNCHANGED calls
    \/ \E e \in EdgeArgs : AddEdge(e) /\ UNCHANGED calls
    \/ \E e \in EdgeArgs : RemoveEdge(e) /\ UNCHANGED calls
    \/ Reverse /\ UNCHANGED calls

Spec == Init /\ [][Next]_vars

(***************************************************************************)
(* The methods as functions of an arbitrary graph that satisfies the data  *)
(* model: keys in any order, successor lists in any order without          *)
(* duplicates, every successor a key, no cycle.                            *)
(***************************************************************************)

\* the successor maps over the nodes of `rank`, every edge leading from a
\* node to one later in `rank`
RECURSIVE AcyclicAdj(_)
AcyclicAdj(rank) ==
    IF rank = <<>> THEN {<<>>}
    ELSE {(Head(rank) :> l) @@ f :
            f \in AcyclicAdj(Tail(rank)),
            l \in Lists({rank[i] : i \in 2..Len(rank)})}

\* the dict with keys in the order `order` and successor map f
DictOf(order, f) == [i \in DOMAIN order |-> [k |-> order[i], v |-> f[order[i]]]]

\* a graph of the data model is drawn; no call was made on it yet
InitG ==
    /\ \E S \in SUBSET Nodes : \E order \in Perms(S), rank \in Perms(S) :
          \E f \in AcyclicAdj(rank) : dag_dict = DictOf(order, f)
    /\ orig = dag_dict
    /\ pre = <<>>
    /\ call = NoCall
    /\ result = "ok"
    /\ ret = <<>>
    /\ prev = <<>>
    /\ calls = 0
    /\ expanded = <<>>

\* a first call on the drawn graph
First == calls = 0 /\ calls' = 1

\* the same call made a second time in a row
Again(op, arg) ==
    calls = 1 /\ call = [op |-> op, arg |-> arg] /\ calls' = 2

Once(op, arg) == First \/ Again(op, arg)

\* the mutating methods, applied once or twice in a row to a drawn graph
NextG ==
    \/ \E n \in Nodes : Once("add_node", <<n>>) /\ AddNode(n)
    \/ \E n \in Nodes : Once("remove_node", <<n>>) /\ RemoveNode(n)
    \/ \E e \in EdgeArgs : Once("add_edge", e) /\ AddEdge(e)
    \/ \E e \in EdgeArgs : Once("remove_edge", e) /\ RemoveEdge(e)
    \/ Once("reverse", <<>>) /\ Reverse

SpecG == InitG /\ [][NextG]_vars

\* the read-only methods, applied to a drawn graph; descendants and
\* ancestors once or twice in a row
NextQ ==
    \/ \E l \in SubgraphArgs : First /\ Subgraph(l)
    \/ First /\ TopologicalSort
    \/ First /\ TopologicalGenerations
    \/ First /\ IsAcyclic
    \/ \E n \in Nodes : Once("descendants", <<n>>) /\ Descendants(n)
    \/ \E n \in Nodes : Once("ancestors", <<n>>) /\ Ancestors(n)
    \/ \E start, end \in Nodes : First /\ HasPath(start, end)
    \/ First /\ SortedTopologicalGenerations
    \/ First /\ NodesOf
    \/ First /\ Edges
    \/ \E n \in Nodes : First /\ Successors(n)
    \/ \E n \in Nodes : First /\ Predecessors(n)
    \/ \E n \in Nodes : First /\ Indegree(n)
    \/ \E n \in Nodes : First /\ Outdegree(n)

SpecQ == InitG /\ [][NextQ]_vars

\* the methods of simple-dag, applied to a drawn graph
NextS ==
    \/ \E e \in EdgeArgs : First /\ RmEdge(e)
    \/ \E n \in Nodes : Once("simple_dag.descendants", <<n>>)
                           /\ SimpleDescendants(n)
    \/ \E n \in Nodes : Once("simple_dag.ancestors", <<n>>)
                           /\ SimpleAncestors(n)

SpecS == InitG /\ [][NextS]_vars

(***************************************************************************)
(* The traversals on an arbitrary well-formed graph: keys in any order,    *)
(* successor lists in any order without duplicates, every successor a key; *)
(* cycles and self-loops allowed.                                          *)
(***************************************************************************)

\* the largest number of edges of a drawn graph
MaxEdges == 3

\* the successor maps over the nodes of the set S with the edge set E,
\* every successor list in any order
RECURSIVE AnyAdj(_, _)
AnyAdj(S, E) ==
    IF S = {} THEN {<<>>}
    ELSE LET n == CHOOSE x \in S : TRUE IN
         {(n :> l) @@ f :
            f \in AnyAdj(S \ {n}, E),
            l \in Perms({e[2] : e \in {x \in E : x[1] = n}})}

\* a well-formed graph is drawn, acyclic or not; no call was made on it yet
InitA ==
    /\ \E S \in SUBSET Nodes :
          \E E \in {X \in SUBSET (S \X S) : Cardinality(X) <= MaxEdges} :
             \E order \in Perms(S), f \in AnyAdj(S, E) :
                dag_dict = DictOf(order, f)
    /\ orig = dag_dict
    /\ pre = <<>>
    /\ call = NoCall
    /\ result = "ok"
    /\ ret = <<>>
    /\ prev = <<>>
    /\ calls = 0
    /\ expanded = <<>>

\* one traversal of a drawn graph
NextA ==
    \/ \E start, end \in Nodes : First /\ HasPath(start, end)
    \/ First /\ IsAcyclic
    \/ \E n \in Nodes : First /\ Descendants(n)
    \/ \E n \in Nodes : First /\ Ancestors(n)
    \/ First /\ TopologicalSort
    \/ First /\ TopologicalGenerations

SpecA == InitA /\ [][NextA]_vars

(***************************************************************************)
(* Graph-theoretic definitions the properties are stated with              *)
(***************************************************************************)

\* the edge set of the graph
EdgeSet(d) == UNION {{<<d[i].k, d[i].v[j]>> : j \in DOMAIN d[i].v} : i \in DOMAIN d}

\* the nodes reachable from the set S along edges of E, S included
RECURSIVE ReachFrom(_, _)
ReachFrom(E, S) ==
    LET T == S \cup {e[2] : e \in {x \in E : x[1] \in S}} IN
    IF T = S THEN S ELSE ReachFrom(E, T)

\* a path of one or more edges leads from a to b
PathExists(d, a, b) ==
    b \in ReachFrom(EdgeSet(d), {e[2] : e \in {x \in EdgeSet(d) : x[1] = a}})

\* no directed cycle, self-loops included
NoCycle(d) == \A e \in EdgeSet(d) : ~PathExists(d, e[2], e[1]) /\ e[1] # e[2]

\* the set of elements of a list
Range(l) == {l[i] : i \in DOMAIN l}

\* the last call was op
Called(op) == call.op = op

\* the last call was add_edge((a, b)) with a well-formed tuple
CalledAddEdge == Called("add_edge") /\ Len(call.arg) = 2

(***************************************************************************)
(* Properties                                                              *)
(***************************************************************************)

\* C1: from the empty DAG, after any sequence of add_node, remove_node,
\* add_edge, remove_edge and reverse calls, returned or raised, the graph has
\* no directed cycle and no self-loop, and is_acyclic() returns true.
C1_AlwaysAcyclic == NoCycle(dag_dict) /\ is_acyclic(dag_dict) = "True"

\* C2: on an acyclic graph, for distinct a, b whose edge a->b is absent,
\* add_edge((a, b)) fails with the cycle error exactly when a path from b to
\* a exists before the call; without such a path the call succeeds and the
\* edge a->b is in the graph afterwards.
C2_CycleGuard ==
    (/\ calls = 1 /\ CalledAddEdge
     /\ call.arg[1] # call.arg[2]
     /\ call.arg \notin EdgeSet(pre))
    => /\ (result = "ValueError") <=> PathExists(pre, call.arg[2], call.arg[1])
       /\ ~PathExists(pre, call.arg[2], call.arg[1])
            => result = "ok" /\ call.arg \in EdgeSet(dag_dict)

\* C3: add_edge((a, a)) fails with an error for every node a, and the
\* self-loop a->a is not recorded in the graph.
C3_SelfLoopRejected ==
    (CalledAddEdge /\ call.arg[1] = call.arg[2])
    => result # "ok" /\ call.arg \notin EdgeSet(dag_dict)

\* C4: when add_edge raises, the graph after the call is the graph before
\* it: same nodes, same successor list for every node.
C4_FailedAddEdgeUnchanged ==
    (Called("add_edge") /\ result # "ok") => dag_dict = pre

\* C5: on a graph of the data model, remove_node(n) returns without raising,
\* and afterwards n is no node and in no successor list.
C5_RemoveNodePurges ==
    (calls = 1 /\ Called("remove_node"))
    => /\ result = "ok"
       /\ call.arg[1] \notin Keys(dag_dict)
       /\ \A i \in DOMAIN dag_dict : ~InList(call.arg[1], dag_dict[i].v)

\* C6: on an acyclic graph topological_sort() returns a sequence as long as
\* the number of nodes in which, for every edge (u, v), u comes before v.
C6_TopologicalSort ==
    Called("topological_sort")
    => /\ result = "ok"
       /\ Len(ret) = Len(nodes(dag_dict))
       /\ \A e \in EdgeSet(dag_dict) :
            /\ \E i, j \in DOMAIN ret : ret[i] = e[1] /\ ret[j] = e[2]
            /\ \A i, j \in DOMAIN ret :
                 (ret[i] = e[1] /\ ret[j] = e[2]) => i < j

\* C6 witness: a sort of three nodes in two components (one edge, one
\* isolated node) has returned.
C6_Witness ==
    /\ Called("topological_sort") /\ result = "ok"
    /\ Len(dag_dict) = 3 /\ Cardinality(EdgeSet(dag_dict)) = 1
    /\ Len(ret) = 3

\* C7: on an acyclic graph the generations of topological_generations()
\* cover exactly the node set, and every node of generation k has all its
\* predecessors in generations before k.
C7_Generations ==
    Called("topological_generations")
    => /\ result = "ok"
       /\ UNION {Range(ret[k]) : k \in DOMAIN ret} = Keys(dag_dict)
       /\ \A k \in DOMAIN ret : \A n \in Range(ret[k]) :
            \A p \in Range(predecessors(dag_dict, n)) :
               \E j \in 1..(k - 1) : p \in Range(ret[j])

\* C7 witness: generations of a graph with a node that has two predecessors
\* have been returned, in more than one generation.
C7_Witness ==
    /\ Called("topological_generations") /\ result = "ok"
    /\ \E n \in Keys(dag_dict) : indegree(dag_dict, n) = 2
    /\ Len(ret) > 1

\* C8: on an acyclic graph with edge set E, reverse() returns without
\* raising, and afterwards the edge set is {(b, a) : (a, b) in E} and the
\* node set is unchanged.
C8_ReverseEdges ==
    (calls = 1 /\ Called("reverse"))
    => /\ result = "ok"
       /\ EdgeSet(dag_dict) = {<<e[2], e[1]>> : e \in EdgeSet(pre)}
       /\ Keys(dag_dict) = Keys(pre)

\* C9: on an acyclic graph, reverse() called twice in a row restores the
\* original edge set and node set.
C9_ReverseInvolution ==
    (calls = 2 /\ Called("reverse"))
    => /\ EdgeSet(dag_dict) = EdgeSet(orig)
       /\ Keys(dag_dict) = Keys(orig)

\* C10: on an acyclic graph G and a list S of its nodes, subgraph(S) returns
\* without raising a graph whose nodes are S and whose edges are the edges
\* of G with both endpoints in S, and G is unchanged.
C10_Subgraph ==
    (Called("subgraph") /\ Range(call.arg) \subseteq Keys(pre))
    => /\ result = "ok"
       /\ Keys(ret) = Range(call.arg)
       /\ EdgeSet(ret) = {e \in EdgeSet(pre) :
                             e[1] \in Range(call.arg) /\ e[2] \in Range(call.arg)}
       /\ dag_dict = pre

\* the last call removed an edge: remove_edge, or rm_edge of simple-dag
CalledRemoveEdge ==
    (Called("remove_edge") \/ Called("rm_edge")) /\ Len(call.arg) = 2

\* C11: remove_edge((s, t)) raises and leaves the graph unchanged when the
\* edge s->t is absent (s a node or not); when the edge is present it
\* removes exactly that edge: same keys, every other edge kept.
C11_RemoveEdge ==
    (calls = 1 /\ CalledRemoveEdge)
    => IF call.arg \in EdgeSet(pre)
       THEN /\ result = "ok"
            /\ nodes(dag_dict) = nodes(pre)
            /\ EdgeSet(dag_dict) = EdgeSet(pre) \ {call.arg}
       ELSE result # "ok" /\ dag_dict = pre

\* C11 for remove_edge of base_dag alone
C11_BaseRemoveEdge == Called("remove_edge") => C11_RemoveEdge

\* the last call was descendants(n) or ancestors(n), of either variant, for
\* a node n of the graph
CalledDescendants ==
    /\ Called("descendants") \/ Called("simple_dag.descendants")
    /\ call.arg[1] \in Keys(pre)

CalledAncestors ==
    /\ Called("ancestors") \/ Called("simple_dag.ancestors")
    /\ call.arg[1] \in Keys(pre)

\* the value returned lists exactly the nodes of S, each once
Lists_Exactly(S) ==
    result = "ok" /\ Len(ret) = Cardinality(S) /\ Range(ret) = S

\* C12: on an acyclic graph and a node n of it, descendants(n) is the set of
\* nodes reachable from n by one or more edges, ancestors(n) the set of nodes
\* from which n is reachable by one or more edges, and a repeated call
\* returns the same set.
C12_Closures ==
    /\ CalledDescendants
         => Lists_Exactly({m \in Keys(pre) : PathExists(pre, call.arg[1], m)})
    /\ CalledAncestors
         => Lists_Exactly({m \in Keys(pre) : PathExists(pre, m, call.arg[1])})
    /\ ((CalledDescendants \/ CalledAncestors) /\ calls = 2) => ret = prev

\* C12 for descendants and ancestors of base_dag alone
C12_BaseClosures ==
    (Called("descendants") \/ Called("ancestors")) => C12_Closures

\* C13: after any sequence of mutation calls from the empty graph, returned
\* or raised, every node in a successor list is a key of the graph and no
\* successor list holds the same target twice.
C13_WellFormed ==
    \A i \in DOMAIN dag_dict :
       /\ \A j \in DOMAIN dag_dict[i].v : dag_dict[i].v[j] \in Keys(dag_dict)
       /\ \A j, k \in DOMAIN dag_dict[i].v :
             j # k => dag_dict[i].v[j] # dag_dict[i].v[k]

\* C13 witness: remove_node has removed a node and the graph still holds
\* an edge.
C13_Witness ==
    /\ Called("remove_node") /\ result = "ok"
    /\ Len(dag_dict) < Len(pre)
    /\ EdgeSet(dag_dict) # {}

\* C14: add_node(n) on a graph that contains n, and add_edge((a, b)) on a
\* graph that contains the edge a->b, return normally and leave the keys and
\* every successor list, order included, unchanged.
C14_IdempotentAdd ==
    /\ (Called("add_node") /\ call.arg[1] \in Keys(pre))
         => result = "ok" /\ dag_dict = pre
    /\ (CalledAddEdge /\ call.arg \in EdgeSet(pre))
         => result = "ok" /\ dag_dict = pre

\* C14 witness: add_edge was called on an edge between two distinct nodes
\* that the graph already had, in a successor list of two entries.
C14_Witness ==
    /\ CalledAddEdge /\ call.arg \in EdgeSet(pre)
    /\ call.arg[1] # call.arg[2]
    /\ Len(Get(pre, call.arg[1])) = 2
    /\ result = "ok"

\* the call was has_path on two nodes of the graph
CalledHasPath ==
    Called("has_path") /\ call.arg[1] \in Keys(pre) /\ call.arg[2] \in Keys(pre)

\* C15: has_path(start, end) on two nodes of a graph, acyclic or not,
\* returns True exactly when start = end or a directed path of at least one
\* edge leads from start to end.
C15_HasPath ==
    CalledHasPath =>
        /\ result = "ok"
        /\ ret[1] = "True" <=>
              \/ call.arg[1] = call.arg[2]
              \/ PathExists(pre, call.arg[1], call.arg[2])

\* has_path answered True for two different nodes of a graph with a cycle,
\* the end not being a direct successor of the start
C15_Witness ==
    /\ CalledHasPath
    /\ ret = <<"True">>
    /\ call.arg[1] # call.arg[2]
    /\ ~InList(call.arg[2], Get(pre, call.arg[1]))
    /\ ~NoCycle(pre)

\* C16: is_acyclic on a well-formed graph returns False exactly when the
\* graph has a directed cycle (a self-loop included), True otherwise.
C16_IsAcyclic ==
    Called("is_acyclic") =>
        /\ result = "ok"
        /\ ret[1] = "False" <=> ~NoCycle(pre)
        /\ ret[1] = "True" <=> NoCycle(pre)

\* is_acyclic answered False for a graph without self-loop whose first key
\* is on no cycle
C16_Witness ==
    /\ Called("is_acyclic")
    /\ ret = <<"False">>
    /\ \A e \in EdgeSet(pre) : e[1] # e[2]
    /\ ~PathExists(pre, pre[1].k, pre[1].k)

\* the list has no element twice
NoDup(l) == \A i, j \in DOMAIN l : i # j => l[i] # l[j]

\* the call was one of the traversals
CalledTraversal ==
    call.op \in {"has_path", "descendants", "ancestors", "is_acyclic",
                 "topological_sort", "topological_generations"}

\* C17 as stated: every traversal of a finite graph, with or without cycles
\* and self-loops, terminates, having expanded each node at most once.
C17_ExpandedOnce ==
    CalledTraversal => NoDup(expanded)

\* C17, amended: every traversal of a finite graph, with or without cycles
\* and self-loops, terminates after at most one expansion per node, and
\* descendants and ancestors after at most one more: they expand their
\* start node a second time when it lies on a cycle.
C17_ExpansionsBounded ==
    CalledTraversal =>
        /\ Len(expanded) <= Len(pre) + 1
        /\ IF call.op \in {"descendants", "ancestors"}
           THEN /\ NoDup(Tail(expanded))
                /\ ~NoDup(expanded) =>
                      PathExists(pre, expanded[1], expanded[1])
           ELSE NoDup(expanded)

\* descendants went round a cycle through all the nodes of the graph and
\* expanded its start node again
C17_Witness ==
    /\ Called("descendants")
    /\ Len(pre) > 2
    /\ Len(expanded) = Len(pre) + 1
    /\ expanded[1] = expanded[Len(expanded)]

\* the predecessors of a node, from the edge set
Preds(d, n) == {e[1] : e \in {x \in EdgeSet(d) : x[2] = n}}

\* the largest element of a non-empty set of numbers
Max(S) == CHOOSE x \in S : \A y \in S : y <= x

\* the length of the longest path that ends at n, in an acyclic graph
RECURSIVE LongestPathTo(_, _)
LongestPathTo(d, n) ==
    IF Preds(d, n) = {} THEN 0
    ELSE 1 + Max({LongestPathTo(d, p) : p \in Preds(d, n)})

\* C18: for every acyclic graph, generation 0 of topological_generations()
\* is exactly the set of indegree-0 nodes, every node of a generation
\* k >= 1 has a predecessor in generation k-1, and the index of a node's
\* generation is the length of the longest path ending at the node.
C18_GenerationsMaximal ==
    Called("topological_generations") =>
        /\ result = "ok"
        /\ pre # <<>> => ret # <<>>
        /\ ret # <<>> =>
              Range(ret[1]) = {n \in Keys(pre) : Preds(pre, n) = {}}
        /\ \A k \in DOMAIN ret : \A n \in Range(ret[k]) :
              /\ k > 1 => Preds(pre, n) \cap Range(ret[k - 1]) # {}
              /\ LongestPathTo(pre, n) = k - 1

\* three generations were returned for a graph with an edge from the node
\* of the first generation to the node of the third
C18_Witness ==
    /\ Called("topological_generations")
    /\ result = "ok"
    /\ Len(ret) = 3
    /\ <<ret[1][1], ret[3][1]>> \in EdgeSet(pre)

\* the call was one of the read-only queries
CalledQuery ==
    call.op \in {"nodes", "edges", "successors", "predecessors", "indegree",
                 "outdegree", "has_path", "descendants", "ancestors",
                 "is_acyclic", "topological_sort", "topological_generations",
                 "sorted_topological_generations"}

\* C19: the read-only queries leave the node set and every successor list,
\* contents and order, as they were, whether they return or raise.
C19_QueriesReadOnly == CalledQuery => dag_dict = pre /\ dag_dict = orig

\* a query raised on a graph with an edge
C19_Witness ==
    /\ CalledQuery
    /\ result = "KeyError"
    /\ EdgeSet(pre) # {}
    /\ dag_dict = pre

\* C20: for every acyclic graph, topological_sort() returns every node of
\* the graph exactly once, and the generations topological_generations()
\* returns are non-empty and pairwise disjoint.
C20_PermutationAndPartition ==
    /\ Called("topological_sort") =>
          result = "ok" /\ NoDup(ret) /\ Range(ret) = Keys(pre)
    /\ Called("topological_generations") =>
          /\ result = "ok"
          /\ \A k \in DOMAIN ret : ret[k] # <<>> /\ NoDup(ret[k])
          /\ \A j, k \in DOMAIN ret :
                j # k => Range(ret[j]) \cap Range(ret[k]) = {}

\* two generations were returned, the first of them with two nodes
C20_Witness ==
    /\ Called("topological_generations")
    /\ result = "ok"
    /\ Len(ret) = 2
    /\ Len(ret[1]) = 2

====
